---- MODULE Spec2Model ----
(***************************************************************************)
(* Model of scan_and_download.py: the scanner                              *)
(* (find_folders_missing_trailer_file), the extractor (extract_video_id),  *)
(* the downloader/mover (download_trailer_videos) and the driver (main).   *)
(*                                                                         *)
(* Strings are sequences of one-character strings, indexed from 0 by the   *)
(* Python-style helpers below.  A path is a sequence of names.             *)
(***************************************************************************)
EXTENDS Integers, Sequences, FiniteSets, TLC

VARIABLES
    root_kind,                \* what the entered root path denotes: "absent", "file", "dir"
    children,                 \* root entry name -> "absent" | "file" | "dir"
    listing,                  \* directory path -> set of entries [name, kind, text]
    working_directory,        \* os.getcwd(): a directory path
    pc,                       \* position of main
    missing_trailer_folders,  \* result of the scan, in os.listdir order
    idx,                      \* 1-based position of the for loop of download_trailer_videos
    successful_downloads,
    failed_downloads,
    outcome,                  \* folder -> what the loop body printed last for it
    run_result,               \* folder -> how subprocess.run ended ("none": not called)
    move_result,              \* folder -> how shutil.move ended ("none": not called)
    printed,                  \* messages of main printed so far
    summary,                  \* the three numbers of the summary, <<>> before it is printed
    exception,                \* the exception that left main, "none" otherwise
    epc,                      \* position of a direct call of extract_video_id
    nfo_content,              \* argument of that call
    video_id                  \* its return value

vars == <<root_kind, children, listing, working_directory, pc,
          missing_trailer_folders, idx, successful_downloads, failed_downloads,
          outcome, run_result, move_result, printed, summary, exception,
          epc, nfo_content, video_id>>

mainVars == <<root_kind, children, listing, working_directory, pc,
              missing_trailer_folders, idx, successful_downloads, failed_downloads,
              outcome, run_result, move_result, printed, summary, exception>>

extractVars == <<epc, nfo_content, video_id>>

(***************************************************************************)
(* Bounds                                                                  *)
(***************************************************************************)
MaxPieces == 5      \* a metadata text is a concatenation of at most MaxPieces pieces
MaxFolders == 2     \* number of entry names of the root folder

(***************************************************************************)
(* Python string operations                                                *)
(***************************************************************************)
Min(S) == CHOOSE x \in S : \A y \in S : x <= y

UpperCase == <<"A","B","C","D","E","F","G","H","I","J","K","L","M",
               "N","O","P","Q","R","S","T","U","V","W","X","Y","Z">>
LowerCase == <<"a","b","c","d","e","f","g","h","i","j","k","l","m",
               "n","o","p","q","r","s","t","u","v","w","x","y","z">>

\* str.lower() on one character
lower_char(c) ==
    IF \E i \in 1..Len(UpperCase) : UpperCase[i] = c
    THEN LowerCase[CHOOSE i \in 1..Len(UpperCase) : UpperCase[i] = c]
    ELSE c

\* lower() left out: the name is compared as it is
lower_unchanged(s) == s

\* str.lower()
lower(s) == [i \in 1..Len(s) |-> lower_char(s[i])]

\* s[a:b] for 0 <= a <= b <= len(s)
slice(s, a, b) == SubSeq(s, a + 1, b)

\* s.find(sub, start): lowest index >= start where sub occurs, -1 when there is none
find(s, sub, start) ==
    LET hits == {i \in start..(Len(s) - Len(sub)) : slice(s, i, i + Len(sub)) = sub}
    IN  IF hits = {} THEN -1 ELSE Min(hits)

\* sub in s
contains(s, sub) == find(s, sub, 0) # -1

\* s.endswith(suffix)
endswith(s, suffix) ==
    /\ Len(suffix) <= Len(s)
    /\ slice(s, Len(s) - Len(suffix), Len(s)) = suffix

Whitespace == {" ", "\t", "\n", "\r"}

\* s.strip()
strip(s) ==
    LET keep == {i \in 1..Len(s) : s[i] \notin Whitespace}
    IN  IF keep = {} THEN <<>>
        ELSE SubSeq(s, Min(keep), CHOOSE i \in keep : \A j \in keep : j <= i)

(***************************************************************************)
(* extract_video_id                                                        *)
(***************************************************************************)
start_tag == <<"?","v","i","d","e","o","_","i","d","=">>
end_tag == <<"<","/","t","r","a","i","l","e","r",">">>

\* Python values returned by extract_video_id: None or a str
None == [none |-> TRUE, str |-> <<>>]
Str(s) == [none |-> FALSE, str |-> s]

\* the identifier taken from the start of the start marker (start_index not advanced)
extract_video_id_from_marker(content) ==
    LET start_index == find(content, start_tag, 0)
        end_index == find(content, end_tag, start_index)
    IN  IF start_index = -1 THEN None
        ELSE IF end_index = -1 \/ start_index >= end_index THEN None
        ELSE Str(strip(slice(content, start_index, end_index)))

\* the test start_index >= end_index left out
extract_video_id_unchecked(content) ==
    LET start_index0 == find(content, start_tag, 0)
        start_index == start_index0 + Len(start_tag)
        end_index == find(content, end_tag, start_index)
    IN  IF start_index0 = -1 THEN None
        ELSE IF end_index = -1 THEN None
        ELSE Str(strip(slice(content, start_index, end_index)))

extract_video_id(content) ==
    LET start_index0 == find(content, start_tag, 0)
        start_index == start_index0 + Len(start_tag)
        end_index == find(content, end_tag, start_index)
    IN  IF start_index0 = -1 THEN None
        ELSE IF end_index = -1 \/ start_index >= end_index THEN None
        ELSE Str(strip(slice(content, start_index, end_index)))

\* truth value of a returned value: None and "" are false
truthy(v) == ~v.none /\ v.str # <<>>

(***************************************************************************)
(* The filesystem: names, paths, entries                                   *)
(***************************************************************************)
root_folder == << <<"l","i","b">> >>          \* the path entered at the prompt
OtherDirectory == << <<"w","o","r","k">> >>   \* a directory outside the root

ChildNamePool == << <<"A">>, <<"B">>, <<"C">>, <<"D">> >>
ChildNames == {ChildNamePool[i] : i \in 1..MaxFolders}

\* os.path.join(path, name)
join(path, name) == Append(path, name)

\* os.path.basename(path)
basename(path) == path[Len(path)]

ChildPaths == {join(root_folder, n) : n \in ChildNames}
Directories == ChildPaths \cup {OtherDirectory}

File(name, text) == [name |-> name, kind |-> "file", text |-> text]
Dir(name) == [name |-> name, kind |-> "dir", text |-> <<>>]

\* metadata texts found in the library
TextWithId == <<"<","t",">">> \o start_tag \o <<"a","B">> \o end_tag
TextBlankId == start_tag \o <<" ">> \o end_tag
TextNoStart == <<"x">> \o end_tag

NameNfo == <<"m",".","n","f","o">>
NameNfo2 == <<"b",".","n","f","o">>
NameNfoUpper == <<"m",".","N","F","O">>
NameNfoDir == <<"d",".","n","f","o">>
NameTrailer == <<"M","-","T","R","a","i","l","e","r",".","m","k","v">>
NameTrailers == <<"T","R","A","I","L","E","R","S">>
NameNearMiss == <<"t","r","a","i","l","-","e","r",".","m","k","v">>

\* the listings a child folder starts with
Profiles ==
    { {},
      {File(NameNfo, TextWithId)},
      {File(NameNfo, TextBlankId), File(NameNearMiss, <<>>)},
      {File(NameNfoUpper, TextWithId)},
      {File(NameNfo, TextWithId), File(NameTrailer, <<>>)},
      {Dir(NameTrailers)},
      {File(NameNfo, TextWithId), File(NameNfo2, TextNoStart)},
      {Dir(NameNfoDir)} }

\* all orders in which os.listdir can return the names of S
RECURSIVE Orders(_)
Orders(S) ==
    IF S = {} THEN {<<>>}
    ELSE UNION {{<<x>> \o o : o \in Orders(S \ {x})} : x \in S}

\* os.path.exists(path) for a path of a directory and a name in it
exists(lst, dir, name) == \E e \in lst[dir] : e.name = name

(***************************************************************************)
(* find_folders_missing_trailer_file                                       *)
(***************************************************************************)
trailer == <<"t","r","a","i","l","e","r">>

\* any('trailer' in file.lower() for file in os.listdir(folder_path))
contains_trailer(entries) == \E file \in entries : contains(lower(file.name), trailer)

\* the loop over os.listdir(root_folder), which returned the names in `order`
RECURSIVE find_folders_missing_trailer_file(_, _, _)
find_folders_missing_trailer_file(order, kids, lst) ==
    IF order = <<>> THEN <<>>
    ELSE LET folder == order[Len(order)]
             folder_path == join(root_folder, folder)
             folders_without_trailer ==
                 find_folders_missing_trailer_file(SubSeq(order, 1, Len(order) - 1), kids, lst)
         IN  IF kids[folder] = "dir" /\ ~contains_trailer(lst[folder_path])
             THEN Append(folders_without_trailer, folder_path)
             ELSE folders_without_trailer

\* os.listdir(root_folder), as a set
listdir_root(kids) == {n \in ChildNames : kids[n] # "absent"}

(***************************************************************************)
(* download_trailer_videos: one iteration of the loop                      *)
(***************************************************************************)
DotNfo == <<".","n","f","o">>

\* [f for f in os.listdir(folder) if f.endswith('.nfo')]
nfo_files(entries) == {f \in entries : endswith(f.name, DotNfo)}

TrailerSuffix == <<"-","t","r","a","i","l","e","r",".","m","p","4">>

\* the output file named after the folder alone
output_file_name_plain(folder) == basename(folder) \o <<".","m","p","4">>

\* os.path.basename(folder) + "-trailer.mp4"
output_file_name(folder) == basename(folder) \o TrailerSuffix

\* How subprocess.run([... yt-dlp ...], check=True) can end: the program cannot be
\* started, it exits non-zero, or it exits zero.
RunResults == {"FileNotFoundError", "nonzero", "zero"}

\* The files of the working directory after the external program ran with
\* -o temp_output_path; `produced` says whether it left a file at that path.
after_run(lst, wd, name, produced) ==
    IF produced THEN [lst EXCEPT ![wd] = @ \cup {File(name, <<>>)}] ELSE lst

\* a copy in place of the move: the source stays
shutil_move_copy(lst, wd, folder, name, fault) ==
    IF ~exists(lst, wd, name)
    THEN [listing |-> lst, result |-> "FileNotFoundError"]
    ELSE IF fault
    THEN [listing |-> lst, result |-> "OSError"]
    ELSE [listing |-> [lst EXCEPT ![folder] = @ \cup {e \in lst[wd] : e.name = name}],
          result |-> "ok"]

\* shutil.move(temp_output_path, final_output_path); `fault` is an error of the
\* operating system (permission, device) other than a missing source.
shutil_move(lst, wd, folder, name, fault) ==
    IF ~exists(lst, wd, name)
    THEN [listing |-> lst, result |-> "FileNotFoundError"]
    ELSE IF fault
    THEN [listing |-> lst, result |-> "OSError"]
    ELSE LET moved == {e \in lst[wd] : e.name = name}
             removed == [lst EXCEPT ![wd] = @ \ moved]
         IN  [listing |-> [removed EXCEPT ![folder] = @ \cup moved], result |-> "ok"]

\* no except clause for subprocess.CalledProcessError
except_clause_no_process_error(exc) ==
    IF exc \in {"IndexError", "FileNotFoundError"} THEN "error_reading" ELSE "raised"

\* except OSError in place of except (IndexError, FileNotFoundError)
except_clause_os_error(exc) ==
    IF exc \in {"IndexError", "FileNotFoundError", "OSError"} THEN "error_reading"
    ELSE IF exc = "CalledProcessError" THEN "error_downloading"
    ELSE "raised"

\* the except clauses of the loop body: what is printed for an exception raised
\* inside the try block, "raised" when no clause matches
except_clause(exc) ==
    IF exc \in {"IndexError", "FileNotFoundError"} THEN "error_reading"
    ELSE IF exc = "CalledProcessError" THEN "error_downloading"
    ELSE "raised"

\* failed_downloads += 1 left out of the first except clause
FailureOutcomes_untallied == {"no_nfo", "no_id", "error_downloading"}

\* outcomes after which failed_downloads += 1 ran
FailureOutcomes == {"no_nfo", "no_id", "error_reading", "error_downloading"}

Iteration(lst, out, run, move, exc) ==
    [listing |-> lst, outcome |-> out, run |-> run, move |-> move, exc |-> exc]

\* The body of `for folder in folders`.  `first` is nfo_files[0], any of the .nfo
\* entries since os.listdir fixes no order; run, produced and fault are what the
\* external program and the operating system do.  Reading (lines 90-96) yields the
\* text of the file: the 'ansi' codec is the one of the Windows builds of Python, and
\* the utf-8 fallback with errors='ignore' cannot fail.  The folder is only changed
\* by the program and by the external program it starts.
loop_body(folder, wd, lst, first, run, produced, fault) ==
    IF nfo_files(lst[folder]) = {}
    THEN Iteration(lst, "no_nfo", "none", "none", "none")
    ELSE IF first.kind = "dir"
    THEN \* open() of a directory: PermissionError / IsADirectoryError
         Iteration(lst, except_clause("OSError"), "none", "none", "OSError")
    ELSE IF ~truthy(extract_video_id(first.text))
    THEN Iteration(lst, "no_id", "none", "none", "none")
    ELSE LET name == output_file_name(folder)
             ran == after_run(lst, wd, name, produced /\ run # "FileNotFoundError")
         IN  IF run = "FileNotFoundError"
             THEN Iteration(ran, except_clause("FileNotFoundError"), run, "none",
                            "FileNotFoundError")
             ELSE IF run = "nonzero"
             THEN Iteration(ran, except_clause("CalledProcessError"), run, "none",
                            "CalledProcessError")
             ELSE LET mv == shutil_move(ran, wd, folder, name, fault)
                  IN  IF mv.result = "ok"
                      THEN Iteration(mv.listing, "success", run, "ok", "none")
                      ELSE Iteration(mv.listing, except_clause(mv.result), run,
                                     mv.result, mv.result)

(***************************************************************************)
(* main                                                                    *)
(***************************************************************************)
NoTrace == [f \in ChildPaths |-> "none"]

InitExtractIdle ==
    /\ epc = "idle"
    /\ nfo_content = <<>>
    /\ video_id = None

Init ==
    /\ root_kind \in {"absent", "file", "dir"}
    /\ children \in [ChildNames -> {"absent", "file", "dir"}]
    /\ root_kind # "dir" => \A n \in ChildNames : children[n] = "absent"
    /\ listing \in [Directories -> Profiles]
    /\ listing[OtherDirectory] = {}
    /\ \A n \in ChildNames : children[n] # "dir" => listing[join(root_folder, n)] = {}
    /\ working_directory \in
           {OtherDirectory} \cup {join(root_folder, n) : n \in {m \in ChildNames : children[m] = "dir"}}
    /\ pc = "start"
    /\ missing_trailer_folders = <<>>
    /\ idx = 0
    /\ successful_downloads = 0
    /\ failed_downloads = 0
    /\ outcome = [f \in ChildPaths |-> "pending"]
    /\ run_result = NoTrace
    /\ move_result = NoTrace
    /\ printed = {}
    /\ summary = <<>>
    /\ exception = "none"
    /\ InitExtractIdle

\* the return after the error message left out: os.listdir raises on the missing path
Main_PathMissing_no_return ==
    /\ pc = "start"
    /\ root_kind = "absent"
    /\ printed' = printed \cup {"error"}
    /\ exception' = "FileNotFoundError"
    /\ pc' = "aborted"
    /\ UNCHANGED <<root_kind, children, listing, working_directory,
                   missing_trailer_folders, idx, successful_downloads, failed_downloads,
                   outcome, run_result, move_result, summary>>
    /\ UNCHANGED extractVars

\* if not os.path.exists(root_folder): print error; return
Main_PathMissing ==
    /\ pc = "start"
    /\ root_kind = "absent"
    /\ printed' = printed \cup {"error"}
    /\ pc' = "done"
    /\ UNCHANGED <<root_kind, children, listing, working_directory,
                   missing_trailer_folders, idx, successful_downloads, failed_downloads,
                   outcome, run_result, move_result, summary, exception>>
    /\ UNCHANGED extractVars

\* os.listdir(root_folder) of a path that is not a directory raises
Main_RootNotDirectory ==
    /\ pc = "start"
    /\ root_kind = "file"
    /\ exception' = "NotADirectoryError"
    /\ pc' = "aborted"
    /\ UNCHANGED <<root_kind, children, listing, working_directory,
                   missing_trailer_folders, idx, successful_downloads, failed_downloads,
                   outcome, run_result, move_result, printed, summary>>
    /\ UNCHANGED extractVars

\* missing_trailer_folders = find_folders_missing_trailer_file(root_folder) and the
\* branch on its result
Main_Scan ==
    /\ pc = "start"
    /\ root_kind = "dir"
    /\ \E order \in Orders(listdir_root(children)) :
           missing_trailer_folders' = find_folders_missing_trailer_file(order, children, listing)
    /\ IF missing_trailer_folders' # <<>>
       THEN /\ printed' = printed \cup {"list"}
            /\ pc' = "download"
            /\ idx' = 1
       ELSE /\ printed' = printed \cup {"all"}
            /\ pc' = "done"
            /\ idx' = idx
    /\ UNCHANGED <<root_kind, children, listing, working_directory,
                   successful_downloads, failed_downloads,
                   outcome, run_result, move_result, summary, exception>>
    /\ UNCHANGED extractVars

\* one iteration of the loop of download_trailer_videos
DownloadFolder ==
    /\ pc = "download"
    /\ idx <= Len(missing_trailer_folders)
    /\ LET folder == missing_trailer_folders[idx]
           firsts == IF nfo_files(listing[folder]) = {}
                     THEN {Dir(<<>>)} ELSE nfo_files(listing[folder])
       IN  \E first \in firsts, run \in RunResults, produced \in BOOLEAN, fault \in BOOLEAN :
             LET it == loop_body(folder, working_directory, listing, first, run, produced, fault)
             IN  /\ listing' = it.listing
                 /\ run_result' = [run_result EXCEPT ![folder] = it.run]
                 /\ move_result' = [move_result EXCEPT ![folder] = it.move]
                 /\ IF it.outcome = "raised"
                    THEN /\ exception' = it.exc
                         /\ pc' = "aborted"
                         /\ UNCHANGED <<idx, outcome, successful_downloads, failed_downloads>>
                    ELSE /\ outcome' = [outcome EXCEPT ![folder] = it.outcome]
                         /\ successful_downloads' =
                                IF it.outcome = "success"
                                THEN successful_downloads + 1 ELSE successful_downloads
                         /\ failed_downloads' =
                                IF it.outcome \in FailureOutcomes
                                THEN failed_downloads + 1 ELSE failed_downloads
                         /\ idx' = idx + 1
                         /\ UNCHANGED <<pc, exception>>
    /\ UNCHANGED <<root_kind, children, working_directory, missing_trailer_folders,
                   printed, summary>>
    /\ UNCHANGED extractVars

\* return successful_downloads, failed_downloads; the summary of main
Main_Summary ==
    /\ pc = "download"
    /\ idx > Len(missing_trailer_folders)
    /\ summary' = <<Len(missing_trailer_folders), successful_downloads, failed_downloads>>
    /\ printed' = printed \cup {"summary"}
    /\ pc' = "done"
    /\ UNCHANGED <<root_kind, children, listing, working_directory,
                   missing_trailer_folders, idx, successful_downloads, failed_downloads,
                   outcome, run_result, move_result, exception>>
    /\ UNCHANGED extractVars

Next ==
    \/ Main_PathMissing
    \/ Main_RootNotDirectory
    \/ Main_Scan
    \/ DownloadFolder
    \/ Main_Summary

Spec == Init /\ [][Next]_vars

(***************************************************************************)
(* A direct call of extract_video_id on an arbitrary text                  *)
(***************************************************************************)
Pieces == {start_tag, end_tag, <<"a">>, <<"B","1">>, <<" ">>, <<"<">>}

RECURSIVE TextsOfPieces(_)
TextsOfPieces(k) ==
    IF k = 0 THEN {<<>>}
    ELSE {t \o p : t \in TextsOfPieces(k - 1), p \in Pieces}

Texts == UNION {TextsOfPieces(k) : k \in 0..MaxPieces}

InitExtract ==
    /\ root_kind = "absent"
    /\ children = [n \in ChildNames |-> "absent"]
    /\ listing = [d \in Directories |-> {}]
    /\ working_directory = OtherDirectory
    /\ pc = "idle"
    /\ missing_trailer_folders = <<>>
    /\ idx = 0
    /\ successful_downloads = 0
    /\ failed_downloads = 0
    /\ outcome = [f \in ChildPaths |-> "pending"]
    /\ run_result = NoTrace
    /\ move_result = NoTrace
    /\ printed = {}
    /\ summary = <<>>
    /\ exception = "none"
    /\ epc = "ready"
    /\ nfo_content \in Texts
    /\ video_id = None

Extract ==
    /\ epc = "ready"
    /\ video_id' = extract_video_id(nfo_content)
    /\ epc' = "returned"
    /\ UNCHANGED nfo_content
    /\ UNCHANGED mainVars

NextExtract == Extract

SpecExtract == InitExtract /\ [][NextExtract]_vars

(***************************************************************************)
(* Vocabulary of the properties, stated without the program's operators    *)
(***************************************************************************)
Range(seq) == {seq[i] : i \in 1..Len(seq)}

\* sub occurs in s at the 0-based position i
Occurs(sub, s, i) ==
    /\ i >= 0
    /\ i + Len(sub) <= Len(s)
    /\ \A k \in 1..Len(sub) : s[i + k] = sub[k]

Positions(sub, s) == {i \in 0..Len(s) : Occurs(sub, s, i)}

SameLetter(a, b) ==
    \/ a = b
    \/ \E i \in 1..Len(UpperCase) : {a, b} = {UpperCase[i], LowerCase[i]}

\* the name contains "trailer", whatever the case of its letters
NamesTrailer(name) ==
    \E off \in 0..(Len(name) - Len(trailer)) :
        \A k \in 1..Len(trailer) : SameLetter(name[off + k], trailer[k])

\* the scan has returned and no folder has been touched since
ScanJustReturned ==
    \/ pc = "done" /\ "all" \in printed
    \/ pc = "download" /\ idx = 1

\* C1: the scan returns exactly the immediate child directories of the root that
\* hold no entry whose name contains "trailer" in any case; each once; entries of
\* the root that are not directories never appear.
C1_ScanReturnsFoldersWithoutTrailer ==
    ScanJustReturned =>
        /\ Range(missing_trailer_folders) =
               {join(root_folder, n) : n \in
                   {m \in ChildNames :
                       /\ children[m] = "dir"
                       /\ \A e \in listing[join(root_folder, m)] : ~NamesTrailer(e.name)}}
        /\ Cardinality(Range(missing_trailer_folders)) = Len(missing_trailer_folders)

C1_Witness ==
    /\ pc = "download" /\ idx = 1
    /\ \E n \in ChildNames :
          /\ children[n] = "dir"
          /\ join(root_folder, n) \notin Range(missing_trailer_folders)
          /\ \E e \in listing[join(root_folder, n)] :
                NamesTrailer(e.name) /\ Positions(trailer, e.name) = {}
    /\ \E n \in ChildNames : join(root_folder, n) \in Range(missing_trailer_folders)

\* identifiers X such that start marker, X, end marker occur back to back in the
\* text, with the start marker at one of the positions `starts`
MarkedIds(text, starts) ==
    {slice(text, i + Len(start_tag), j) : <<i, j>> \in
        {ij \in starts \X Positions(end_tag, text) :
            LET X == slice(text, ij[1] + Len(start_tag), ij[2])
            IN  /\ ij[1] + Len(start_tag) < ij[2]
                /\ \A k \in 1..Len(X) : X[k] \notin Whitespace
                /\ Positions(start_tag, X) = {}
                /\ Positions(end_tag, X) = {}}}

FirstPosition(sub, s) == {i \in Positions(sub, s) : \A j \in Positions(sub, s) : i <= j}

\* C2 as stated: whatever precedes or follows start marker, X, end marker, the
\* call returns X.
C2_ReturnsMarkedIdAnywhere ==
    epc = "returned" =>
        \A X \in MarkedIds(nfo_content, Positions(start_tag, nfo_content)) :
            video_id = Str(X)

\* C2 amended: when X follows the FIRST start marker of the text, the call returns X,
\* whatever precedes that marker and whatever follows the end marker.
C2_ReturnsIdAfterFirstStartMarker ==
    epc = "returned" =>
        \A X \in MarkedIds(nfo_content, FirstPosition(start_tag, nfo_content)) :
            video_id = Str(X)

C2_Witness ==
    /\ epc = "returned"
    /\ \E X \in MarkedIds(nfo_content, FirstPosition(start_tag, nfo_content)) :
          /\ video_id = Str(X)
          /\ 0 \notin Positions(start_tag, nfo_content)
          /\ Len(nfo_content) > Min(Positions(start_tag, nfo_content))
                                  + Len(start_tag) + Len(X) + Len(end_tag)

\* the end marker occurs, but only at or before the place where the first start
\* marker ends
EndOnlyAtOrBeforeStartEnd(text) ==
    /\ Positions(start_tag, text) # {}
    /\ Positions(end_tag, text) # {}
    /\ \A j \in Positions(end_tag, text) :
           j <= Min(Positions(start_tag, text)) + Len(start_tag)

\* C3: a text without start marker, without end marker, or whose end marker occurs
\* only at or before the end of the start marker yields None.
C3_NoneWithoutUsableMarkers ==
    (/\ epc = "returned"
     /\ \/ Positions(start_tag, nfo_content) = {}
        \/ Positions(end_tag, nfo_content) = {}
        \/ EndOnlyAtOrBeforeStartEnd(nfo_content))
    => video_id = None

C3_Witness ==
    /\ epc = "returned"
    /\ EndOnlyAtOrBeforeStartEnd(nfo_content)
    /\ Min(Positions(start_tag, nfo_content)) + Len(start_tag) \in Positions(end_tag, nfo_content)
    /\ video_id = None

\* C6: the call returns None or a non-empty string without leading or trailing
\* whitespace, never the empty string.
C6_ReturnedIdNonEmpty ==
    epc = "returned" =>
        \/ video_id = None
        \/ /\ ~video_id.none
           /\ Len(video_id.str) >= 1
           /\ video_id.str[1] \notin Whitespace
           /\ video_id.str[Len(video_id.str)] \notin Whitespace

Successes == {f \in Range(missing_trailer_folders) : outcome[f] = "success"}
Failures == {f \in Range(missing_trailer_folders) : outcome[f] \in FailureOutcomes}

\* C4: at the summary, successes + failures is the number of folders found by the
\* scan, and every folder of the list counts once, in exactly one of the counters.
C4_SummaryCountsAddUp ==
    /\ pc = "download" => successful_downloads + failed_downloads = idx - 1
    /\ summary # <<>> =>
          /\ summary[1] = Len(missing_trailer_folders)
          /\ summary[2] + summary[3] = summary[1]
          /\ summary[2] = Cardinality(Successes)
          /\ summary[3] = Cardinality(Failures)
          /\ Successes \cup Failures = Range(missing_trailer_folders)

C4_Witness ==
    /\ summary # <<>>
    /\ summary[2] >= 1
    /\ summary[3] >= 1

\* C5 as stated: whenever the external program exited with code zero for a folder
\* that has been processed, the file is at <folder>/<base>-trailer.mp4, none is at
\* <working directory>/<base>-trailer.mp4, and the folder counts as a success.
C5_ZeroExitPlacesFile ==
    \A f \in ChildPaths :
        (run_result[f] = "zero" /\ outcome[f] # "pending") =>
            /\ exists(listing, f, output_file_name(f))
            /\ ~exists(listing, working_directory, output_file_name(f))
            /\ outcome[f] = "success"

\* C5 amended: when the external program exited with code zero and the move that
\* follows returned, the folder counts as a success and the file is at
\* <folder>/<base>-trailer.mp4; none is left at the temporary path unless the
\* working directory is the folder itself, where both paths are the same file.  A
\* zero exit that left no file at the temporary path counts as a failure.
C5_ZeroExitAndMovePlacesFile ==
    \A f \in ChildPaths :
        /\ (run_result[f] = "zero" /\ move_result[f] = "ok") =>
              /\ outcome[f] = "success"
              /\ exists(listing, f, output_file_name(f))
              /\ working_directory # f => ~exists(listing, working_directory, output_file_name(f))
        /\ (run_result[f] = "zero" /\ move_result[f] = "FileNotFoundError") =>
              /\ outcome[f] = "error_reading"
              /\ ~exists(listing, f, output_file_name(f))

C5_Witness ==
    \E f \in ChildPaths :
        /\ run_result[f] = "zero"
        /\ move_result[f] = "ok"
        /\ working_directory # f
        /\ working_directory \in ChildPaths

\* a step of the loop body for the folder at the loop position
LoopStep == pc = "download" /\ idx <= Len(missing_trailer_folders) /\ vars' # vars

\* C7: a folder without .nfo entry, without extractable identifier, or whose external
\* program exits non-zero adds exactly one failure, runs no later stage (no external
\* program without .nfo or identifier, no move after a non-zero exit), and the loop
\* goes on with the next folder.
C7_FailureShortCircuitsFolderOnly ==
    [][LoopStep =>
        LET folder == missing_trailer_folders[idx]
            nfo == nfo_files(listing[folder])
            counted == /\ failed_downloads' = failed_downloads + 1
                       /\ successful_downloads' = successful_downloads
                       /\ move_result'[folder] = "none"
                       /\ ~exists(listing', folder, output_file_name(folder))
                          \/ working_directory = folder
                       /\ idx' = idx + 1
                       /\ pc' = "download"
                       /\ exception' = "none"
        IN  /\ nfo = {} =>
                  counted /\ run_result'[folder] = "none" /\ listing' = listing
            /\ (nfo # {} /\ \A f \in nfo : f.kind = "file" /\ ~truthy(extract_video_id(f.text))) =>
                  counted /\ run_result'[folder] = "none" /\ listing' = listing
            /\ run_result'[folder] = "nonzero" => counted
    ]_vars

C7_Witness ==
    \E i, j \in 1..Len(missing_trailer_folders) :
        /\ i < j
        /\ \/ outcome[missing_trailer_folders[i]] \in {"no_nfo", "no_id"}
           \/ run_result[missing_trailer_folders[i]] = "nonzero"
        /\ run_result[missing_trailer_folders[i]] # "zero"
        /\ outcome[missing_trailer_folders[j]] # "pending"

\* C8 as stated: a run prints the summary exactly when the root path exists.
C8_SummaryIffPathExists ==
    pc \in {"done", "aborted"} => ("summary" \in printed <=> root_kind # "absent")

\* C8 amended: the summary is printed only when the root path exists and the scan
\* found at least one folder; a missing path prints the error and returns without
\* scanning or starting the external program; an existing directory without folder
\* missing a trailer prints the "all child folders" message and no summary; a run
\* that an exception aborts prints no summary.
C8_SummaryOnlyAfterNonEmptyScan ==
    /\ "summary" \in printed =>
          root_kind = "dir" /\ missing_trailer_folders # <<>> /\ pc = "done"
    /\ (root_kind = "absent" /\ pc # "start") =>
          /\ pc = "done"
          /\ printed = {"error"}
          /\ missing_trailer_folders = <<>>
          /\ idx = 0
          /\ \A f \in ChildPaths : run_result[f] = "none" /\ outcome[f] = "pending"
    /\ (root_kind = "dir" /\ pc = "done") =>
          /\ "summary" \in printed <=> missing_trailer_folders # <<>>
          /\ "all" \in printed <=> missing_trailer_folders = <<>>
    /\ pc = "aborted" => "summary" \notin printed

C8_Witness ==
    /\ pc = "done"
    /\ root_kind = "dir"
    /\ "all" \in printed
    /\ "summary" \notin printed
    /\ \E n \in ChildNames : children[n] = "dir"

\* folders of the list after the loop position
Later == {missing_trailer_folders[j] : j \in (idx + 1)..Len(missing_trailer_folders)}

\* C9 as stated: every failure of the move after a zero exit leaves the loop: no
\* failure is counted for the folder, no later folder is processed, no summary is
\* printed; the only failures counted are a missing .nfo, a failed extraction and a
\* non-zero exit.
C9_MoveFailureAlwaysAborts ==
    \A f \in ChildPaths :
        /\ move_result[f] \in {"FileNotFoundError", "OSError"} =>
              /\ pc = "aborted"
              /\ outcome[f] = "pending"
              /\ summary = <<>>
              /\ \A g \in Later : outcome[g] = "pending"
        /\ outcome[f] \in FailureOutcomes =>
              \/ outcome[f] \in {"no_nfo", "no_id"}
              \/ run_result[f] = "nonzero"

\* C9 amended: a failure of the move other than FileNotFoundError leaves the loop (no
\* failure counted, no later folder processed, no summary); a FileNotFoundError of
\* the move is caught, counted as a failure and the loop goes on; the failures
\* counted are a missing .nfo, a failed extraction, a non-zero exit and a
\* FileNotFoundError raised by starting the external program or by the move.
C9_OnlyFileNotFoundIsSwallowed ==
    \A f \in ChildPaths :
        /\ move_result[f] = "OSError" =>
              /\ pc = "aborted"
              /\ exception = "OSError"
              /\ outcome[f] = "pending"
              /\ f = missing_trailer_folders[idx]
              /\ summary = <<>>
              /\ \A g \in Later : outcome[g] = "pending"
        /\ move_result[f] = "FileNotFoundError" =>
              /\ outcome[f] = "error_reading"
              /\ f \in Failures
        /\ outcome[f] \in FailureOutcomes =>
              \/ outcome[f] \in {"no_nfo", "no_id"}
              \/ run_result[f] = "nonzero"
              \/ run_result[f] = "FileNotFoundError"
              \/ run_result[f] = "zero" /\ move_result[f] = "FileNotFoundError"

C9_Witness ==
    /\ pc = "aborted"
    /\ Later # {}
    /\ \E f \in ChildPaths : move_result[f] = "OSError" /\ run_result[f] = "zero"

\* the folders a second scan of the root returns
Rescan ==
    Range(find_folders_missing_trailer_file(
              CHOOSE o \in Orders(listdir_root(children)) : TRUE, children, listing))

RescanMatchesFailures ==
    /\ Rescan = Failures
    /\ summary[3] = Cardinality(Rescan)
    /\ \A f \in Successes : \E e \in listing[f] : NamesTrailer(e.name)

====
